---- MODULE Spec2Model ----
(***************************************************************************)
(* Seat inventory and reservation life cycle of the sports-screening       *)
(* server: the booking controller (createBooking, cancelBooking,           *)
(* updateBooking, updateEventSeats) and the payment controller             *)
(* (createPaymentIntent) running as concurrent request handlers against    *)
(* one Event document and the Booking collection.                          *)
(*                                                                         *)
(* A handler is a sequence of steps, one per awaited store call: the call  *)
(* takes effect atomically in the store and the synchronous code that      *)
(* follows it (up to the next await) runs with it, as in a single-threaded *)
(* event loop.  Handlers of different requests interleave at the awaits.   *)
(***************************************************************************)
EXTENDS Integers, Sequences, FiniteSets, TLC

\* ---------------------------------------------------------------- bounds
MaxSeats == 3          \* capacity (maxOccupancy) of the event
MaxQty == 2            \* largest quantity a request asks for
MaxBookings == 2       \* Booking documents that may be created
MaxRequests == 4       \* requests issued in one behaviour
MaxTime == 1           \* clock ticks; the event starts at the last one
NumProcs == 2          \* requests in flight at the same time
MaxOver == 2           \* limiter requests issued beyond the class ceiling
MaxCacheRequests == 4  \* getMe and deleteUser requests in one behaviour
MaxTicks == 3          \* readings of the cache clock after the first
MaxKeyed == 3          \* requests counted by full key in one behaviour

Procs == 1..NumProcs
Users == {"u1", "u2"}

\* the eventId and the price that the bodies of the createBooking requests
\* carry
EventId == "e1"
Price == 10

\* ------------------------------------------------------------ the schemas
BookingStatus == {"pending", "confirmed", "cancelled"}
PaymentStatus == {"pending", "succeeded", "failed", "refunded"}

\* values a request body may leave out
Absent == "absent"

\* the bodies of updateBooking requests: the payment succeeded, the payment
\* failed, and a body that names a status only
UpdateBodies ==
    {[status |-> "confirmed", paymentStatus |-> "succeeded"],
     [status |-> Absent, paymentStatus |-> "failed"],
     [status |-> "pending", paymentStatus |-> Absent]}

\* a request slot with no request, and a handler's empty locals
NoDoc == [status |-> Absent, paymentStatus |-> Absent, paymentIntentId |-> FALSE]
NoBody == [status |-> Absent, paymentStatus |-> Absent]
NoCount == -1
Idle ==
    [op |-> "none", pc |-> "idle", user |-> "u1", id |-> 0, quantity |-> 0,
     operation |-> "none", seats |-> 0, eventSeats |-> 0, booking |-> NoDoc,
     body |-> NoBody, refund |-> "none", res |-> 0, remaining |-> NoCount]

\* the values that a request body gives for quantity and for price: none,
\* a negative number, zero, and the numbers that pass the validation
NoNumber == [given |-> FALSE, n |-> 0]
BodyQuantities == {NoNumber} \cup {[given |-> TRUE, n |-> n] : n \in -1..MaxQty}
BodyPrices == {NoNumber} \cup {[given |-> TRUE, n |-> n] : n \in {-1, 0, Price}}

\* the `!x` of the validation: undefined and 0 are falsy
falsy(x) == ~x.given \/ x.n = 0

\* the empty booking id of a cancelBooking request
NoId == 0

\* -------------------------------------------------------- rate limiting
WINDOW_SIZE_IN_SECONDS == 60
MAX_REQUESTS == 5
AUTH_WINDOW_SIZE_IN_SECONDS == 300
MAX_AUTH_REQUESTS == 3
EVENT_WINDOW_SIZE_IN_SECONDS == 3600
MAX_EVENT_REQUESTS == 10

\* the three limiters: bookingRateLimiter, authRateLimiter and
\* eventCreationRateLimiter differ in their key prefix, window and ceiling
Classes == {"booking", "auth", "event_creation"}

Window(c) ==
    CASE c = "booking" -> WINDOW_SIZE_IN_SECONDS
      [] c = "auth" -> AUTH_WINDOW_SIZE_IN_SECONDS
      [] c = "event_creation" -> EVENT_WINDOW_SIZE_IN_SECONDS

\* a faulty variant of the ceilings below: the limiters for authentication
\* and for event creation use each other's ceiling
CeilingMixedUp(c) ==
    CASE c = "booking" -> MAX_REQUESTS
      [] c = "auth" -> MAX_EVENT_REQUESTS
      [] c = "event_creation" -> MAX_AUTH_REQUESTS

Ceiling(c) ==
    CASE c = "booking" -> MAX_REQUESTS
      [] c = "auth" -> MAX_AUTH_REQUESTS
      [] c = "event_creation" -> MAX_EVENT_REQUESTS

\* the identifiers the keys are built from: a user id or a network address
Actors == {"user:u1", "ip"}

\* what the store's TTL command answers for a key without expiry and for a
\* key that does not exist
NoExpiry == -1
NoKey == -2

\* a key that does not exist, and a slot with no request in the limiter
NoCounter == [count |-> 0, ttl |-> NoKey]
RateIdle == [pc |-> "idle", actor |-> "ip", count |-> 0, res |-> "none", ttl |-> 0]

\* -------------------------------------------------- the keys of the store
\* the users and the network addresses of the requests that reach a limiter;
\* "none" is a request without an authenticated user
KeyUsers == {"none", "u1", "u2"}
Addresses == {"ip1", "ip2"}

\* a faulty variant of the identifier below: every limiter uses the address
identifierByAddress(c, user, ip) == <<ip>>

\* the identifier of a request: the booking and the event creation limiter
\* take `user:${req.user._id}` when there is a user, and req.ip otherwise;
\* the authentication limiter takes req.ip.  A string is the sequence of
\* its parts.
identifier(c, user, ip) ==
    IF c # "auth" /\ user # "none" THEN <<"user:", user>> ELSE <<ip>>

\* `rate_limit:${class}:${identifier}`
redisKey(c, id) == <<"rate_limit:", c, ":">> \o id

AllKeys ==
    {redisKey(c, identifier(c, u, ip)) : c \in Classes, u \in KeyUsers, ip \in Addresses}

KeyIdle == [pc |-> "idle", cls |-> "auth", user |-> "none", ip |-> "ip1"]

\* ------------------------------------------------------- the user cache
\* seconds between two readings of the clock, and the exp claims of the
\* tokens that the requests carry
ClockStep == 50
TokenExpiries == {30, 200}

\* the user document as findUserById returns it (without the password), and
\* no document
UserDoc == [idType |-> "ObjectId", name |-> "n1"]
NoUser == [idType |-> "none", name |-> "none"]

\* JSON.stringify: an ObjectId becomes its string; JSON.parse gives the
\* object back with the string
stringify(d) == [json |-> [d EXCEPT !.idType = IF @ = "ObjectId" THEN "string" ELSE @]]
parse(s) == s.json

\* no entry under the user's key
NoEntry == [present |-> FALSE, value |-> stringify(NoUser), ttl |-> 0]

\* a faulty variant of the time to live below: no minimum
cacheTtlUnclamped(jwtExpiration, t) == jwtExpiration - t

\* the time to live that cacheUserData computes: Math.max(exp - now, 60)
cacheTtl(jwtExpiration, t) ==
    IF jwtExpiration - t > 60 THEN jwtExpiration - t ELSE 60

CacheIdle ==
    [op |-> "none", pc |-> "idle", exp |-> 0, userData |-> NoUser, hit |-> FALSE,
     res |-> 0, body |-> stringify(NoUser)]

VARIABLES
    event,      \* the Event document: maxOccupancy, availableSeats, date
    bookings,   \* the Booking collection, a sequence indexed by booking id
    req,        \* per request slot: the handler, its position and its locals
    now,        \* the clock that new Date() reads
    issued,     \* number of requests issued so far
    cls,        \* the rate limiter (action class) that the requests go through
    counters,   \* the counter store: per actor key, the count and the time to live
    rlReq,      \* per request slot: the limiter's position and its locals
    rlIssued,   \* number of requests that entered the limiter so far
    passed,     \* per actor key: requests let through on their count since the
                \* key was created
    keyStore,   \* the counter store by full key: the count and the time to live
    keyReq,     \* the request that is between redis.incr and redis.expire
    keyIssued,  \* number of requests counted by full key so far
    userDoc,    \* the User document of the one user
    cache,      \* the cache entry under the user's key
    clock,      \* Date.now() in seconds
    cReq,       \* per request slot: getMe or deleteUser, its position and locals
    cIssued,    \* number of getMe and deleteUser requests so far
    eventExists \* whether the Event document is still in its collection

bookVars == <<event, bookings, req, now, issued>>
rlVars == <<cls, counters, rlReq, rlIssued, passed>>
keyVars == <<keyStore, keyReq, keyIssued>>
cacheVars == <<userDoc, cache, clock, cReq, cIssued>>
auxVars == <<keyVars, cacheVars, eventExists>>
vars == <<bookVars, rlVars, auxVars>>

\* ------------------------------------------------------------------ Init
\* a faulty variant of createEvent: the event starts sold out
createEventSoldOut(maxOccupancy) ==
    [maxOccupancy |-> maxOccupancy, availableSeats |-> 0, date |-> MaxTime]

\* createEvent: availableSeats starts at maxOccupancy
createEvent(maxOccupancy) ==
    [maxOccupancy |-> maxOccupancy, availableSeats |-> maxOccupancy, date |-> MaxTime]

\* one event has been created and no booking request was made
BookInit ==
    /\ event = createEvent(MaxSeats)
    /\ bookings = <<>>
    /\ req = [p \in Procs |-> Idle]
    /\ now = 0
    /\ issued = 0

\* the counter store holds no key and no request is in a limiter
RateInit ==
    /\ counters = [a \in Actors |-> NoCounter]
    /\ rlReq = [p \in Procs |-> RateIdle]
    /\ rlIssued = 0
    /\ passed = [a \in Actors |-> 0]

\* no request was counted by full key
KeyInit ==
    /\ keyStore = [k \in AllKeys |-> NoCounter]
    /\ keyReq = KeyIdle
    /\ keyIssued = 0

\* the user exists, the cache is empty and no getMe or deleteUser runs
CacheInit ==
    /\ userDoc = UserDoc
    /\ cache = NoEntry
    /\ clock = 0
    /\ cReq = [p \in Procs |-> CacheIdle]
    /\ cIssued = 0

\* the event has not been deleted
AuxInit == KeyInit /\ CacheInit /\ eventExists = TRUE

Init ==
    /\ BookInit
    /\ cls = "booking"
    /\ RateInit
    /\ AuxInit

\* --------------------------------------------------------------- helpers
Free(p) == req[p].pc \in {"idle", "done"}

\* a new request takes the first free slot
CanIssue(p) ==
    /\ Free(p)
    /\ \A q \in Procs : q < p => ~Free(q)
    /\ issued < MaxRequests

\* the handler sends its response and returns; its locals are gone
Respond(r, code, remaining) ==
    [r EXCEPT !.pc = "done", !.res = code, !.remaining = remaining,
              !.user = "u1", !.operation = "none", !.seats = 0, !.eventSeats = 0,
              !.body = NoBody]

\* Booking.findById
Exists(id) == id \in 1..Len(bookings)

\* the seat counts of bookings that hold seats
RECURSIVE SumActive(_)
SumActive(n) ==
    IF n = 0 THEN 0
    ELSE SumActive(n - 1) +
         (IF bookings[n].status \in {"pending", "confirmed"} THEN bookings[n].quantity ELSE 0)

\* ------------------------------------------------------- updateEventSeats
\* a faulty variant of the arithmetic below: the operation is ignored and
\* every call subtracts
SeatsAfterAlwaysDecrease(seats, quantity, operation) ==
    seats - quantity

\* the arithmetic of updateEventSeats on the loaded document
SeatsAfter(seats, quantity, operation) ==
    IF operation = "decrease" THEN seats - quantity ELSE seats + quantity

\* Event.findById, the check of the 'decrease' branch, and the update of the
\* loaded document; a throw (no event, not enough seats) is caught by the
\* calling handler's catch (500)
updateEventSeatsFind(p) ==
    /\ req[p].pc = "ues_find"
    /\ LET r == req[p] IN
       IF ~eventExists \/ (r.operation = "decrease" /\ event.availableSeats < r.quantity)
       THEN req' = [req EXCEPT ![p] = Respond(r, 500, NoCount)]
       ELSE req' = [req EXCEPT ![p].pc = "ues_save",
                               ![p].seats = SeatsAfter(event.availableSeats, r.quantity, r.operation)]
    /\ UNCHANGED <<event, bookings, now, issued, rlVars, auxVars>>

\* event.save(): writes the loaded document's availableSeats; the caller
\* then goes on to its next store call.  The save of a document that was
\* deleted in between finds nothing to update and throws (500).
updateEventSeatsSave(p) ==
    /\ req[p].pc = "ues_save"
    /\ IF eventExists
       THEN /\ event' = [event EXCEPT !.availableSeats = req[p].seats]
            /\ req' = [req EXCEPT ![p].pc = IF req[p].op = "createBooking"
                                            THEN "c_populate" ELSE "x_save",
                                  ![p].seats = 0, ![p].operation = "none"]
       ELSE /\ event' = event
            /\ req' = [req EXCEPT ![p] = Respond(req[p], 500, NoCount)]
    /\ UNCHANGED <<bookings, now, issued, rlVars, auxVars>>

\* ---------------------------------------------------------- createBooking
\* the request arrives: validation of the body up to the first store call
createBookingStart(p, u, q) ==
    /\ CanIssue(p)
    /\ Len(bookings) < MaxBookings
    /\ issued' = issued + 1
    /\ LET r == [Idle EXCEPT !.op = "createBooking", !.user = u, !.quantity = q] IN
       IF q <= 0
       THEN req' = [req EXCEPT ![p] = Respond(r, 400, NoCount)]
       ELSE req' = [req EXCEPT ![p] = [r EXCEPT !.pc = "c_findEvent"]]
    /\ UNCHANGED <<event, bookings, now, rlVars, auxVars>>

\* findEventById and the first seat check; findEventById throws when there
\* is no event, and createBooking's catch answers 500
createBookingFindEvent(p) ==
    /\ req[p].pc = "c_findEvent"
    /\ LET r == req[p] IN
       IF ~eventExists
       THEN req' = [req EXCEPT ![p] = Respond(r, 500, NoCount)]
       ELSE IF event.availableSeats < r.quantity
       THEN req' = [req EXCEPT ![p] = Respond(r, 400, event.availableSeats)]
       ELSE req' = [req EXCEPT ![p].pc = "c_create"]
    /\ UNCHANGED <<event, bookings, now, issued, rlVars, auxVars>>

\* Booking.create: status defaults to pending
createBookingCreate(p) ==
    /\ req[p].pc = "c_create"
    /\ bookings' = Append(bookings,
           [userId |-> req[p].user, eventId |-> EventId, quantity |-> req[p].quantity,
            price |-> Price, status |-> "pending",
            paymentStatus |-> Absent, paymentIntentId |-> FALSE])
    /\ req' = [req EXCEPT ![p].pc = "c_saveQr", ![p].id = Len(bookings) + 1]
    /\ UNCHANGED <<event, now, issued, rlVars, auxVars>>

\* newBooking.save() with the QR code, then the call of updateEventSeats
createBookingSaveQr(p) ==
    /\ req[p].pc = "c_saveQr"
    /\ req' = [req EXCEPT ![p].pc = "ues_find", ![p].operation = "decrease"]
    /\ UNCHANGED <<event, bookings, now, issued, rlVars, auxVars>>

\* Booking.findById(...).populate(...) and the 201 response
createBookingPopulate(p) ==
    /\ req[p].pc = "c_populate"
    /\ req' = [req EXCEPT ![p] = Respond(req[p], 201, NoCount)]
    /\ UNCHANGED <<event, bookings, now, issued, rlVars, auxVars>>

\* ---------------------------------------------------------- cancelBooking
\* the request arrives: the user and the id are present
cancelBookingStart(p, u, id) ==
    /\ CanIssue(p)
    /\ issued' = issued + 1
    /\ req' = [req EXCEPT ![p] = [Idle EXCEPT !.op = "cancelBooking", !.pc = "x_findBooking",
                                              !.user = u, !.id = id]]
    /\ UNCHANGED <<event, bookings, now, rlVars, auxVars>>

\* a faulty variant of the step below: the ownership check is left out
cancelBookingFindBookingAnyUser(p) ==
    /\ req[p].pc = "x_findBooking"
    /\ LET r == req[p] IN
       IF ~Exists(r.id)
       THEN req' = [req EXCEPT ![p] = Respond(r, 404, NoCount)]
       ELSE req' = [req EXCEPT ![p].pc = "x_findEvent",
                               ![p].quantity = bookings[r.id].quantity,
                               ![p].booking = [status |-> bookings[r.id].status,
                                               paymentStatus |-> bookings[r.id].paymentStatus,
                                               paymentIntentId |-> bookings[r.id].paymentIntentId]]
    /\ UNCHANGED <<event, bookings, now, issued, rlVars, auxVars>>

\* Booking.findById and the ownership check
cancelBookingFindBooking(p) ==
    /\ req[p].pc = "x_findBooking"
    /\ LET r == req[p] IN
       IF ~Exists(r.id)
       THEN req' = [req EXCEPT ![p] = Respond(r, 404, NoCount)]
       ELSE IF bookings[r.id].userId # r.user
       THEN req' = [req EXCEPT ![p] = Respond(r, 403, NoCount)]
       ELSE req' = [req EXCEPT ![p].pc = "x_findEvent",
                               ![p].quantity = bookings[r.id].quantity,
                               ![p].booking = [status |-> bookings[r.id].status,
                                               paymentStatus |-> bookings[r.id].paymentStatus,
                                               paymentIntentId |-> bookings[r.id].paymentIntentId]]
    /\ UNCHANGED <<event, bookings, now, issued, rlVars, auxVars>>

\* a faulty variant of the step below: an event that starts right now does
\* not count as past
cancelBookingFindEventStrictlyPast(p) ==
    /\ req[p].pc = "x_findEvent"
    /\ LET r == req[p] IN
       IF ~eventExists
       THEN req' = [req EXCEPT ![p] = Respond(r, 404, NoCount)]
       ELSE IF event.date < now
       THEN req' = [req EXCEPT ![p] = Respond(r, 400, NoCount)]
       ELSE IF r.booking.paymentIntentId /\ r.booking.paymentStatus = "succeeded"
       THEN req' = [req EXCEPT ![p].pc = "x_refund", ![p].eventSeats = event.availableSeats]
       ELSE req' = [req EXCEPT ![p].pc = "ues_find", ![p].operation = "increase",
                               ![p].eventSeats = event.availableSeats]
    /\ UNCHANGED <<event, bookings, now, issued, rlVars, auxVars>>

\* Event.findById (404 when there is no event), the date check, and the
\* choice between the refund call and updateEventSeats
cancelBookingFindEvent(p) ==
    /\ req[p].pc = "x_findEvent"
    /\ LET r == req[p] IN
       IF ~eventExists
       THEN req' = [req EXCEPT ![p] = Respond(r, 404, NoCount)]
       ELSE IF event.date <= now
       THEN req' = [req EXCEPT ![p] = Respond(r, 400, NoCount)]
       ELSE IF r.booking.paymentIntentId /\ r.booking.paymentStatus = "succeeded"
       THEN req' = [req EXCEPT ![p].pc = "x_refund", ![p].eventSeats = event.availableSeats]
       ELSE req' = [req EXCEPT ![p].pc = "ues_find", ![p].operation = "increase",
                               ![p].eventSeats = event.availableSeats]
    /\ UNCHANGED <<event, bookings, now, issued, rlVars, auxVars>>

\* a faulty variant of the step below: a refund that throws ends the request
cancelBookingRefundAborts(p, ok) ==
    /\ req[p].pc = "x_refund"
    /\ req' = IF ok
              THEN [req EXCEPT ![p].pc = "ues_find", ![p].operation = "increase",
                               ![p].refund = "ok"]
              ELSE [req EXCEPT ![p] = Respond([req[p] EXCEPT !.refund = "failed"], 500, NoCount)]
    /\ UNCHANGED <<event, bookings, now, issued, rlVars, auxVars>>

\* stripe.refunds.create: it succeeds or throws; either way the handler
\* continues with updateEventSeats
cancelBookingRefund(p, ok) ==
    /\ req[p].pc = "x_refund"
    /\ req' = [req EXCEPT ![p].pc = "ues_find", ![p].operation = "increase",
                          ![p].refund = IF ok THEN "ok" ELSE "failed"]
    /\ UNCHANGED <<event, bookings, now, issued, rlVars, auxVars>>

\* a faulty variant of the step below: the cancelled booking gives up its
\* quantity
cancelBookingSaveClearsQuantity(p) ==
    /\ req[p].pc = "x_save"
    /\ LET r == req[p]
           b == bookings[r.id]
           st == IF r.booking.status # "cancelled" THEN "cancelled" ELSE b.status
           ps == IF r.booking.paymentStatus # "refunded" THEN "refunded" ELSE b.paymentStatus
       IN /\ bookings' = [bookings EXCEPT ![r.id] =
                             [b EXCEPT !.status = st, !.paymentStatus = ps, !.quantity = 0]]
          /\ req' = [req EXCEPT ![p] = Respond(r, 200, NoCount)]
    /\ UNCHANGED <<event, now, issued, rlVars, auxVars>>

\* booking.save(): the paths set to a value other than the loaded one are
\* written.  paymentInfo is a nested path of the schema, so the document's
\* paymentInfo is always an object and the payment status is always set.
cancelBookingSave(p) ==
    /\ req[p].pc = "x_save"
    /\ LET r == req[p]
           b == bookings[r.id]
           st == IF r.booking.status # "cancelled" THEN "cancelled" ELSE b.status
           ps == IF r.booking.paymentStatus # "refunded" THEN "refunded" ELSE b.paymentStatus
       IN /\ bookings' = [bookings EXCEPT ![r.id] = [b EXCEPT !.status = st, !.paymentStatus = ps]]
          /\ req' = [req EXCEPT ![p] = Respond(r, 200, NoCount)]
    /\ UNCHANGED <<event, now, issued, rlVars, auxVars>>

\* ---------------------------------------------------------- updateBooking
updateBookingStart(p, u, id, body) ==
    /\ CanIssue(p)
    /\ issued' = issued + 1
    /\ req' = [req EXCEPT ![p] = [Idle EXCEPT !.op = "updateBooking", !.pc = "u_findBooking",
                                              !.user = u, !.id = id,
                                              !.body = body]]
    /\ UNCHANGED <<event, bookings, now, rlVars, auxVars>>

\* Booking.findById and the ownership check
updateBookingFindBooking(p) ==
    /\ req[p].pc = "u_findBooking"
    /\ LET r == req[p] IN
       IF ~Exists(r.id)
       THEN req' = [req EXCEPT ![p] = Respond(r, 404, NoCount)]
       ELSE IF bookings[r.id].userId # r.user
       THEN req' = [req EXCEPT ![p] = Respond(r, 403, NoCount)]
       ELSE req' = [req EXCEPT ![p].pc = "u_save",
                               ![p].booking = [status |-> bookings[r.id].status,
                                               paymentStatus |-> bookings[r.id].paymentStatus,
                                               paymentIntentId |-> bookings[r.id].paymentIntentId]]
    /\ UNCHANGED <<event, bookings, now, issued, rlVars, auxVars>>

\* a faulty variant of the step below: a body that repeats the loaded status
\* is answered with an error
updateBookingSaveRejectsRepeat(p) ==
    /\ req[p].pc = "u_save"
    /\ LET r == req[p]
           b == bookings[r.id]
           st == IF r.body.status # Absent /\ r.body.status # r.booking.status
                 THEN r.body.status ELSE b.status
           ps == IF r.body.paymentStatus # Absent /\ r.body.paymentStatus # r.booking.paymentStatus
                 THEN r.body.paymentStatus ELSE b.paymentStatus
       IN IF r.body.status = r.booking.status
          THEN /\ bookings' = bookings
               /\ req' = [req EXCEPT ![p] = Respond(r, 400, NoCount)]
          ELSE /\ bookings' = [bookings EXCEPT ![r.id] = [b EXCEPT !.status = st, !.paymentStatus = ps]]
               /\ req' = [req EXCEPT ![p] = Respond(r, 200, NoCount)]
    /\ UNCHANGED <<event, now, issued, rlVars, auxVars>>

\* booking.save(): status and paymentInfo.paymentStatus are written when the
\* body gives a value other than the loaded one
updateBookingSave(p) ==
    /\ req[p].pc = "u_save"
    /\ LET r == req[p]
           b == bookings[r.id]
           st == IF r.body.status # Absent /\ r.body.status # r.booking.status
                 THEN r.body.status ELSE b.status
           ps == IF r.body.paymentStatus # Absent /\ r.body.paymentStatus # r.booking.paymentStatus
                 THEN r.body.paymentStatus ELSE b.paymentStatus
       IN /\ bookings' = [bookings EXCEPT ![r.id] = [b EXCEPT !.status = st, !.paymentStatus = ps]]
          /\ req' = [req EXCEPT ![p] = Respond(r, 200, NoCount)]
    /\ UNCHANGED <<event, now, issued, rlVars, auxVars>>

\* ---------------------------------------------------- createPaymentIntent
\* a faulty variant of the step below: the update also resets the event's
\* seat count
createPaymentIntentTouchingSeats(id) ==
    /\ issued < MaxRequests
    /\ issued' = issued + 1
    /\ bookings' = IF Exists(id)
                   THEN [bookings EXCEPT ![id].paymentStatus = "pending",
                                         ![id].paymentIntentId = TRUE]
                   ELSE bookings
    /\ event' = [event EXCEPT !.availableSeats = event.maxOccupancy]
    /\ UNCHANGED <<req, now, rlVars, auxVars>>

\* stripe.paymentIntents.create, then Booking.findByIdAndUpdate replaces the
\* booking's paymentInfo by a fresh one with paymentStatus pending; the
\* handler reads nothing of the store before, so it is one step
createPaymentIntent(id) ==
    /\ issued < MaxRequests
    /\ issued' = issued + 1
    /\ bookings' = IF Exists(id)
                   THEN [bookings EXCEPT ![id].paymentStatus = "pending",
                                         ![id].paymentIntentId = TRUE]
                   ELSE bookings
    /\ UNCHANGED <<event, req, now, rlVars, auxVars>>

\* ------------------------------------------------------------ deleteEvent
\* the roles of the users that ask for the deletion of the event
Roles == {"owner", "user"}

\* the request arrives: only an owner may delete
deleteEventStart(p, role) ==
    /\ CanIssue(p)
    /\ issued' = issued + 1
    /\ LET r == [Idle EXCEPT !.op = "deleteEvent"] IN
       IF role # "owner"
       THEN req' = [req EXCEPT ![p] = Respond(r, 403, NoCount)]
       ELSE req' = [req EXCEPT ![p] = [r EXCEPT !.pc = "d_findEvent"]]
    /\ UNCHANGED <<event, bookings, now, rlVars, auxVars>>

\* findEventById: its AuthError is answered 404 by deleteEvent's catch
deleteEventFindEvent(p) ==
    /\ req[p].pc = "d_findEvent"
    /\ req' = IF eventExists
              THEN [req EXCEPT ![p].pc = "d_delete"]
              ELSE [req EXCEPT ![p] = Respond(req[p], 404, NoCount)]
    /\ UNCHANGED <<event, bookings, now, issued, rlVars, auxVars>>

\* Event.findByIdAndDelete and the 200 response; the bookings of the event
\* are not looked at
deleteEventDelete(p) ==
    /\ req[p].pc = "d_delete"
    /\ eventExists' = FALSE
    /\ req' = [req EXCEPT ![p] = Respond(req[p], 200, NoCount)]
    /\ UNCHANGED <<event, bookings, now, issued, rlVars, keyVars, cacheVars>>

\* ------------------------------------- the checks before the first store call
\* a faulty variant of the step below: the seats are taken off the event
\* before the body is validated
createBookingValidateReservesFirst(p, user, eventId, quantity, price) ==
    /\ CanIssue(p)
    /\ Len(bookings) < MaxBookings
    /\ issued' = issued + 1
    /\ event' = IF quantity.given /\ quantity.n > 0 /\ quantity.n <= event.availableSeats
                THEN [event EXCEPT !.availableSeats = @ - quantity.n] ELSE event
    /\ LET r == [Idle EXCEPT !.op = "createBooking"] IN
       IF user = "none"
       THEN req' = [req EXCEPT ![p] = Respond(r, 401, NoCount)]
       ELSE IF eventId = Absent \/ falsy(quantity) \/ falsy(price)
       THEN req' = [req EXCEPT ![p] = Respond(r, 400, NoCount)]
       ELSE IF quantity.n <= 0 \/ price.n <= 0
       THEN req' = [req EXCEPT ![p] = Respond(r, 400, NoCount)]
       ELSE req' = [req EXCEPT ![p] = [r EXCEPT !.pc = "c_findEvent", !.user = user,
                                                !.quantity = quantity.n]]
    /\ UNCHANGED <<bookings, now, rlVars, auxVars>>

\* createBooking from its first line: the user that checkAuth left on the
\* request, then the body; a request that passes goes on to findEventById
createBookingValidate(p, user, eventId, quantity, price) ==
    /\ CanIssue(p)
    /\ Len(bookings) < MaxBookings
    /\ issued' = issued + 1
    /\ LET r == [Idle EXCEPT !.op = "createBooking"] IN
       IF user = "none"
       THEN req' = [req EXCEPT ![p] = Respond(r, 401, NoCount)]
       ELSE IF eventId = Absent \/ falsy(quantity) \/ falsy(price)
       THEN req' = [req EXCEPT ![p] = Respond(r, 400, NoCount)]
       ELSE IF quantity.n <= 0 \/ price.n <= 0
       THEN req' = [req EXCEPT ![p] = Respond(r, 400, NoCount)]
       ELSE req' = [req EXCEPT ![p] = [r EXCEPT !.pc = "c_findEvent", !.user = user,
                                                !.quantity = quantity.n]]
    /\ UNCHANGED <<event, bookings, now, rlVars, auxVars>>

\* cancelBooking from its first line: the user, then req.params.id; a
\* request that passes goes on to Booking.findById
cancelBookingValidate(p, user, id) ==
    /\ CanIssue(p)
    /\ issued' = issued + 1
    /\ LET r == [Idle EXCEPT !.op = "cancelBooking"] IN
       IF user = "none"
       THEN req' = [req EXCEPT ![p] = Respond(r, 401, NoCount)]
       ELSE IF id = NoId
       THEN req' = [req EXCEPT ![p] = Respond(r, 400, NoCount)]
       ELSE req' = [req EXCEPT ![p] = [r EXCEPT !.pc = "x_findBooking", !.user = user,
                                                !.id = id]]
    /\ UNCHANGED <<event, bookings, now, rlVars, auxVars>>

\* ----------------------------------------------------------- store errors
\* a store call of a handler throws: the handler's catch block answers 500
\* (the refund call has its own try/catch, see cancelBookingRefund)
storeError(p) ==
    /\ ~Free(p)
    /\ req[p].pc # "x_refund"
    /\ req' = [req EXCEPT ![p] = Respond(req[p], 500, NoCount)]
    /\ UNCHANGED <<event, bookings, now, issued, rlVars, auxVars>>

\* ------------------------------------------------------------------ time
Tick ==
    /\ now < MaxTime
    /\ now' = now + 1
    /\ UNCHANGED <<event, bookings, req, issued, rlVars, auxVars>>

\* ------------------------------------------------------ the rate limiters
\* a request enters the limiter of class cls: the identifier is chosen and
\* redis.incr is called
limiterStart(p, a) ==
    /\ rlReq[p].pc \in {"idle", "done"}
    /\ \A q \in Procs : q < p => rlReq[q].pc \notin {"idle", "done"}
    /\ rlIssued < Ceiling(cls) + MaxOver
    /\ rlIssued' = rlIssued + 1
    /\ rlReq' = [rlReq EXCEPT ![p] = [RateIdle EXCEPT !.pc = "incr", !.actor = a]]
    /\ UNCHANGED <<cls, counters, passed, bookVars, auxVars>>

\* a faulty variant of the decision below: the ceiling itself is refused
AfterCountOffByOne(r, currentCount) ==
    IF currentCount >= Ceiling(cls)
    THEN [r EXCEPT !.pc = "ttl", !.count = currentCount]
    ELSE [r EXCEPT !.pc = "done", !.count = currentCount, !.res = "next"]

\* the limiter's decision once the count and the expiry are dealt with:
\* above the ceiling it asks for the time to live, otherwise it calls next()
AfterCount(r, currentCount) ==
    IF currentCount > Ceiling(cls)
    THEN [r EXCEPT !.pc = "ttl", !.count = currentCount]
    ELSE [r EXCEPT !.pc = "done", !.count = currentCount, !.res = "next"]

\* a faulty variant of the step below: every increment starts the window
\* anew
limiterIncrSliding(p) ==
    /\ rlReq[p].pc = "incr"
    /\ LET a == rlReq[p].actor
           currentCount == counters[a].count + 1
           r == IF currentCount = 1
                THEN [rlReq[p] EXCEPT !.pc = "expire", !.count = currentCount]
                ELSE AfterCount(rlReq[p], currentCount)
       IN /\ counters' = [counters EXCEPT ![a] =
                             [count |-> currentCount,
                              ttl |-> IF counters[a].count = 0 THEN NoExpiry ELSE Window(cls)]]
          /\ rlReq' = [rlReq EXCEPT ![p] = r]
          /\ passed' = [passed EXCEPT ![a] = IF r.res = "next" THEN @ + 1 ELSE @]
    /\ UNCHANGED <<cls, rlIssued, bookVars, auxVars>>

\* redis.incr: a key that does not exist is created with count 1 and no
\* expiry; the first request of a key goes on to redis.expire
limiterIncr(p) ==
    /\ rlReq[p].pc = "incr"
    /\ LET a == rlReq[p].actor
           currentCount == counters[a].count + 1
           r == IF currentCount = 1
                THEN [rlReq[p] EXCEPT !.pc = "expire", !.count = currentCount]
                ELSE AfterCount(rlReq[p], currentCount)
       IN /\ counters' = [counters EXCEPT ![a] =
                             [count |-> currentCount,
                              ttl |-> IF counters[a].count = 0 THEN NoExpiry ELSE counters[a].ttl]]
          /\ rlReq' = [rlReq EXCEPT ![p] = r]
          /\ passed' = [passed EXCEPT ![a] = IF r.res = "next" THEN @ + 1 ELSE @]
    /\ UNCHANGED <<cls, rlIssued, bookVars, auxVars>>

\* redis.expire(redisKey, window): the key gets its time to live
limiterExpire(p) ==
    /\ rlReq[p].pc = "expire"
    /\ LET a == rlReq[p].actor
           r == AfterCount(rlReq[p], rlReq[p].count)
       IN /\ counters' = IF counters[a].count = 0 THEN counters
                         ELSE [counters EXCEPT ![a].ttl = Window(cls)]
          /\ rlReq' = [rlReq EXCEPT ![p] = r]
          /\ passed' = [passed EXCEPT ![a] = IF r.res = "next" THEN @ + 1 ELSE @]
    /\ UNCHANGED <<cls, rlIssued, bookVars, auxVars>>

\* redis.ttl and the 429 response that carries it
limiterTtl(p) ==
    /\ rlReq[p].pc = "ttl"
    /\ rlReq' = [rlReq EXCEPT ![p].pc = "done", ![p].res = "429",
                              ![p].ttl = counters[rlReq[p].actor].ttl]
    /\ UNCHANGED <<cls, counters, rlIssued, passed, bookVars, auxVars>>

\* a faulty variant of the step below: the catch block answers 429
limiterStoreErrorFailsClosed(p) ==
    /\ rlReq[p].pc \in {"incr", "expire", "ttl"}
    /\ rlReq' = [rlReq EXCEPT ![p].pc = "done", ![p].res = "429"]
    /\ UNCHANGED <<cls, counters, rlIssued, passed, bookVars, auxVars>>

\* a call of the counter store throws: the catch block calls next()
limiterStoreError(p) ==
    /\ rlReq[p].pc \in {"incr", "expire", "ttl"}
    /\ rlReq' = [rlReq EXCEPT ![p].pc = "done", ![p].res = "next"]
    /\ UNCHANGED <<cls, counters, rlIssued, passed, bookVars, auxVars>>

\* d seconds pass: the times to live run down and a key whose time is up is
\* removed by the store
Expire(c, d) ==
    IF c.count = 0 \/ c.ttl = NoExpiry THEN c
    ELSE IF c.ttl - d <= 0 THEN NoCounter
    ELSE [c EXCEPT !.ttl = c.ttl - d]

\* the durations that pass in one step: up to the last second of a key's
\* time to live, up to its end, and the first second of a window
Durations ==
    UNION {({counters[a].ttl - 1, counters[a].ttl}
              \cup (IF counters[a].ttl = Window(cls) THEN {1} ELSE {})) \ {0} :
           a \in {b \in Actors : counters[b].count > 0 /\ counters[b].ttl # NoExpiry}}

Elapse(d) ==
    /\ counters' = [a \in Actors |-> Expire(counters[a], d)]
    /\ passed' = [a \in Actors |-> IF counters'[a].count = 0 THEN 0 ELSE passed[a]]
    /\ UNCHANGED <<cls, rlReq, rlIssued, bookVars, auxVars>>

\* ------------------------------------------------- the route POST /create
\* a faulty variant of the step below: the handler also runs for a request
\* that the limiter answered
nextCreateBookingUnguarded(p, q) ==
    /\ rlReq[p].pc = "done"
    /\ Free(p)
    /\ Len(bookings) < MaxBookings
    /\ issued < MaxRequests
    /\ issued' = issued + 1
    /\ rlReq' = [rlReq EXCEPT ![p] = RateIdle]
    /\ LET r == [Idle EXCEPT !.op = "createBooking", !.user = "u1", !.quantity = q] IN
       IF q <= 0
       THEN req' = [req EXCEPT ![p] = Respond(r, 400, NoCount)]
       ELSE req' = [req EXCEPT ![p] = [r EXCEPT !.pc = "c_findEvent"]]
    /\ UNCHANGED <<event, bookings, now, cls, counters, rlIssued, passed, auxVars>>

\* next(): the limiter hands the request of the authenticated user to
\* createBooking, which validates the body up to its first store call
nextCreateBooking(p, q) ==
    /\ rlReq[p].pc = "done"
    /\ rlReq[p].res = "next"
    /\ Free(p)
    /\ Len(bookings) < MaxBookings
    /\ issued < MaxRequests
    /\ issued' = issued + 1
    /\ rlReq' = [rlReq EXCEPT ![p] = RateIdle]
    /\ LET r == [Idle EXCEPT !.op = "createBooking", !.user = "u1", !.quantity = q] IN
       IF q <= 0
       THEN req' = [req EXCEPT ![p] = Respond(r, 400, NoCount)]
       ELSE req' = [req EXCEPT ![p] = [r EXCEPT !.pc = "c_findEvent"]]
    /\ UNCHANGED <<event, bookings, now, cls, counters, rlIssued, passed, auxVars>>

\* ------------------------------------------------- counting by full key
\* a request reaches one of the three limiters: the identifier and the key
\* are built and redis.incr is called on the key
keyedIncr(c, user, ip) ==
    /\ keyReq.pc = "idle"
    /\ keyIssued < MaxKeyed
    /\ keyIssued' = keyIssued + 1
    /\ LET redisKeyOfRequest == redisKey(c, identifier(c, user, ip))
           currentCount == keyStore[redisKeyOfRequest].count + 1
       IN /\ keyStore' = [keyStore EXCEPT ![redisKeyOfRequest] =
                             [count |-> currentCount,
                              ttl |-> IF currentCount = 1 THEN NoExpiry ELSE @.ttl]]
          /\ keyReq' = [pc |-> IF currentCount = 1 THEN "expire" ELSE "idle",
                        cls |-> c, user |-> user, ip |-> ip]
    /\ UNCHANGED <<cacheVars, bookVars, rlVars, eventExists>>

\* redis.expire on the key of the request that counted 1
keyedExpire ==
    /\ keyReq.pc = "expire"
    /\ keyStore' = [keyStore EXCEPT
                       ![redisKey(keyReq.cls, identifier(keyReq.cls, keyReq.user, keyReq.ip))].ttl =
                            Window(keyReq.cls)]
    /\ keyReq' = [keyReq EXCEPT !.pc = "idle"]
    /\ UNCHANGED <<keyIssued, cacheVars, bookVars, rlVars, eventExists>>

\* ------------------------------------------------------------------ getMe
CacheFree(p) == cReq[p].pc \in {"idle", "done"}

\* the response of getMe or deleteUser: the locals are gone
CacheRespond(r, code, body) ==
    [r EXCEPT !.pc = "done", !.res = code, !.body = body, !.exp = 0, !.userData = NoUser]

\* the request arrives with a token: verifyToken throws when the token has
\* expired, otherwise the cache is asked
getMeStart(p, exp) ==
    /\ CacheFree(p)
    /\ \A q \in Procs : q < p => ~CacheFree(q)
    /\ cIssued < MaxCacheRequests
    /\ cIssued' = cIssued + 1
    /\ LET r == [CacheIdle EXCEPT !.op = "getMe", !.exp = exp] IN
       IF exp <= clock
       THEN cReq' = [cReq EXCEPT ![p] = CacheRespond(r, 401, stringify(NoUser))]
       ELSE cReq' = [cReq EXCEPT ![p] = [r EXCEPT !.pc = "gm_get"]]
    /\ UNCHANGED <<userDoc, cache, clock, keyVars, bookVars, rlVars, eventExists>>

\* a faulty variant of the step below: the entry is not looked at and the
\* user is always fetched
getMeCacheGetAlwaysLoads(p) ==
    /\ cReq[p].pc = "gm_get"
    /\ cReq' = [cReq EXCEPT ![p].pc = "gm_find"]
    /\ UNCHANGED <<userDoc, cache, clock, cIssued, keyVars, bookVars, rlVars, eventExists>>

\* getCachedUserData: redis.get and JSON.parse; with an entry the handler
\* goes on to the bookings, without one to findUserById
getMeCacheGet(p) ==
    /\ cReq[p].pc = "gm_get"
    /\ cReq' = IF cache.present
               THEN [cReq EXCEPT ![p].pc = "gm_bookings", ![p].hit = TRUE,
                                 ![p].userData = parse(cache.value)]
               ELSE [cReq EXCEPT ![p].pc = "gm_find"]
    /\ UNCHANGED <<userDoc, cache, clock, cIssued, keyVars, bookVars, rlVars, eventExists>>

\* findUserById: no user is an AuthError, answered 401
getMeFindUser(p) ==
    /\ cReq[p].pc = "gm_find"
    /\ cReq' = IF userDoc = NoUser
               THEN [cReq EXCEPT ![p] = CacheRespond(cReq[p], 401, stringify(NoUser))]
               ELSE [cReq EXCEPT ![p].pc = "gm_set", ![p].userData = userDoc]
    /\ UNCHANGED <<userDoc, cache, clock, cIssued, keyVars, bookVars, rlVars, eventExists>>

\* cacheUserData: redis.setex of the serialized user with the time to live
getMeCacheSet(p) ==
    /\ cReq[p].pc = "gm_set"
    /\ cache' = [present |-> TRUE, value |-> stringify(cReq[p].userData),
                 ttl |-> cacheTtl(cReq[p].exp, clock)]
    /\ cReq' = [cReq EXCEPT ![p].pc = "gm_bookings"]
    /\ UNCHANGED <<userDoc, clock, cIssued, keyVars, bookVars, rlVars, eventExists>>

\* getUpcomingBookings and the 200 response: res.json serializes the user
getMeBookings(p) ==
    /\ cReq[p].pc = "gm_bookings"
    /\ cReq' = [cReq EXCEPT ![p] = CacheRespond(cReq[p], 200, stringify(cReq[p].userData))]
    /\ UNCHANGED <<userDoc, cache, clock, cIssued, keyVars, bookVars, rlVars, eventExists>>

\* a faulty variant of the step below: a cache that throws fails the request
getMeCacheGetErrorFails(p) ==
    /\ cReq[p].pc = "gm_get"
    /\ cReq' = [cReq EXCEPT ![p] = CacheRespond(cReq[p], 500, stringify(NoUser))]
    /\ UNCHANGED <<userDoc, cache, clock, cIssued, keyVars, bookVars, rlVars, eventExists>>

\* redis.get throws: UserCacheService.get answers null, a miss
getMeCacheGetError(p) ==
    /\ cReq[p].pc = "gm_get"
    /\ cReq' = [cReq EXCEPT ![p].pc = "gm_find"]
    /\ UNCHANGED <<userDoc, cache, clock, cIssued, keyVars, bookVars, rlVars, eventExists>>

\* redis.setex throws: UserCacheService.set swallows the error
getMeCacheSetError(p) ==
    /\ cReq[p].pc = "gm_set"
    /\ cReq' = [cReq EXCEPT ![p].pc = "gm_bookings"]
    /\ UNCHANGED <<userDoc, cache, clock, cIssued, keyVars, bookVars, rlVars, eventExists>>

\* the store restarts and loses the entry
cacheLost ==
    /\ cache.present
    /\ cache' = NoEntry
    /\ UNCHANGED <<userDoc, clock, cReq, cIssued, keyVars, bookVars, rlVars, eventExists>>

\* ------------------------------------------------------------- deleteUser
deleteUserStart(p) ==
    /\ CacheFree(p)
    /\ \A q \in Procs : q < p => ~CacheFree(q)
    /\ cIssued < MaxCacheRequests
    /\ cIssued' = cIssued + 1
    /\ cReq' = [cReq EXCEPT ![p] = [CacheIdle EXCEPT !.op = "deleteUser", !.pc = "du_delete"]]
    /\ UNCHANGED <<userDoc, cache, clock, keyVars, bookVars, rlVars, eventExists>>

\* User.findByIdAndDelete
deleteUserDelete(p) ==
    /\ cReq[p].pc = "du_delete"
    /\ userDoc' = NoUser
    /\ cReq' = [cReq EXCEPT ![p].pc = "du_invalidate"]
    /\ UNCHANGED <<cache, clock, cIssued, keyVars, bookVars, rlVars, eventExists>>

\* invalidateUserCache: redis.del, then the 200 response
deleteUserInvalidate(p) ==
    /\ cReq[p].pc = "du_invalidate"
    /\ cache' = NoEntry
    /\ cReq' = [cReq EXCEPT ![p] = CacheRespond(cReq[p], 200, stringify(NoUser))]
    /\ UNCHANGED <<userDoc, clock, cIssued, keyVars, bookVars, rlVars, eventExists>>

\* ClockStep seconds pass: the entry's time to live runs down and an entry
\* whose time is up is removed by the store
cacheTick ==
    /\ clock < MaxTicks * ClockStep
    /\ clock' = clock + ClockStep
    /\ cache' = IF ~cache.present THEN cache
                ELSE IF cache.ttl - ClockStep <= 0 THEN NoEntry
                ELSE [cache EXCEPT !.ttl = @ - ClockStep]
    /\ UNCHANGED <<userDoc, cReq, cIssued, keyVars, bookVars, rlVars, eventExists>>

\* ------------------------------------------------------ specifications
\* a request arrives
Arrive ==
    \/ \E p \in Procs, u \in Users, q \in 0..MaxQty : createBookingStart(p, u, q)
    \/ \E p \in Procs, u \in Users, id \in 1..MaxBookings : cancelBookingStart(p, u, id)
    \/ \E p \in Procs, u \in Users, id \in 1..MaxBookings, body \in UpdateBodies :
            updateBookingStart(p, u, id, body)
    \/ \E id \in 1..MaxBookings : createPaymentIntent(id)

\* a store call of createBooking (updateEventSeats included) completes
CreateStep ==
    \/ \E p \in Procs : createBookingFindEvent(p)
    \/ \E p \in Procs : createBookingCreate(p)
    \/ \E p \in Procs : createBookingSaveQr(p)
    \/ \E p \in Procs : updateEventSeatsFind(p)
    \/ \E p \in Procs : updateEventSeatsSave(p)
    \/ \E p \in Procs : createBookingPopulate(p)

\* a store call of cancelBooking or updateBooking completes
OtherStep ==
    \/ \E p \in Procs : cancelBookingFindBooking(p)
    \/ \E p \in Procs : cancelBookingFindEvent(p)
    \/ \E p \in Procs, ok \in BOOLEAN : cancelBookingRefund(p, ok)
    \/ \E p \in Procs : cancelBookingSave(p)
    \/ \E p \in Procs : updateBookingFindBooking(p)
    \/ \E p \in Procs : updateBookingSave(p)

\* requests are handled concurrently: up to NumProcs in flight
Next == Arrive \/ CreateStep \/ OtherStep \/ Tick

Spec == Init /\ [][Next]_vars

\* one request at a time: a request arrives only when none is in flight
Quiescent == \A p \in Procs : Free(p)

NextSeq == (Quiescent /\ Arrive) \/ CreateStep \/ OtherStep \/ Tick

SpecSeq == Init /\ [][NextSeq]_vars

\* one request at a time, with store calls that may throw
NextSeqOutage == NextSeq \/ \E p \in Procs : storeError(p)

SpecSeqOutage == Init /\ [][NextSeqOutage]_vars

\* the event was created with any maxOccupancy of the request body, and
\* the booking requests are handled one at a time
InitAnyCapacity ==
    /\ \E maxOccupancy \in 1..MaxSeats : event = createEvent(maxOccupancy)
    /\ bookings = <<>>
    /\ req = [p \in Procs |-> Idle]
    /\ now = 0
    /\ issued = 0
    /\ cls = "booking"
    /\ RateInit
    /\ AuxInit

SpecAnyCapacity == InitAnyCapacity /\ [][NextSeq]_vars

\* the scenario of concurrent cancellations: u1 holds one booking of two
\* seats, pending without payment or confirmed with a payment that succeeded,
\* and cancelBooking requests of u1 for it have just arrived
InitTwoCancels ==
    /\ event = [createEvent(MaxSeats) EXCEPT !.availableSeats = MaxSeats - 2]
    /\ bookings \in
          {<<[userId |-> "u1", eventId |-> EventId, quantity |-> 2, price |-> Price,
              status |-> "pending", paymentStatus |-> Absent, paymentIntentId |-> FALSE]>>,
           <<[userId |-> "u1", eventId |-> EventId, quantity |-> 2, price |-> Price,
              status |-> "confirmed", paymentStatus |-> "succeeded",
              paymentIntentId |-> TRUE]>>}
    /\ req = [p \in Procs |-> [Idle EXCEPT !.op = "cancelBooking", !.pc = "x_findBooking",
                                           !.user = "u1", !.id = 1]]
    /\ now = 0
    /\ issued = NumProcs
    /\ cls = "booking"
    /\ RateInit
    /\ AuxInit

\* a store call or the refund call of one of the cancellations completes
CancelStep ==
    \/ \E p \in Procs : cancelBookingFindBooking(p)
    \/ \E p \in Procs : cancelBookingFindEvent(p)
    \/ \E p \in Procs, ok \in BOOLEAN : cancelBookingRefund(p, ok)
    \/ \E p \in Procs : updateEventSeatsFind(p)
    \/ \E p \in Procs : updateEventSeatsSave(p)
    \/ \E p \in Procs : cancelBookingSave(p)

SpecTwoCancels == InitTwoCancels /\ [][CancelStep]_vars

\* the booking requests and deleteEvent, handled one at a time
DeleteEventStep ==
    \/ Quiescent /\ \E p \in Procs, role \in Roles : deleteEventStart(p, role)
    \/ \E p \in Procs : deleteEventFindEvent(p)
    \/ \E p \in Procs : deleteEventDelete(p)

NextDeleteEvent == NextSeq \/ DeleteEventStep

SpecDeleteEvent == Init /\ [][NextDeleteEvent]_vars

\* createBooking and cancelBooking requests with any user and any body,
\* handled one at a time
BoundaryStep ==
    \/ Quiescent /\ \E p \in Procs, user \in KeyUsers, eventId \in {Absent, EventId},
                        quantity \in BodyQuantities, price \in BodyPrices :
                           createBookingValidate(p, user, eventId, quantity, price)
    \/ Quiescent /\ \E p \in Procs, user \in KeyUsers, id \in {NoId} \cup (1..MaxBookings) :
                           cancelBookingValidate(p, user, id)
    \/ CreateStep
    \/ \E p \in Procs : cancelBookingFindBooking(p)
    \/ \E p \in Procs : cancelBookingFindEvent(p)
    \/ \E p \in Procs : cancelBookingSave(p)
    \/ Tick

SpecBoundary == Init /\ [][BoundaryStep]_vars

\* the scenario of two concurrent reservations: an event with 3 seats left
\* and two createBooking requests for 2 seats each, just arrived
InitTwoCreates ==
    /\ event = createEvent(3)
    /\ bookings = <<>>
    /\ req \in [Procs -> {[Idle EXCEPT !.op = "createBooking", !.pc = "c_findEvent",
                                       !.user = u, !.quantity = 2] : u \in Users}]
    /\ now = 0
    /\ issued = NumProcs
    /\ cls = "booking"
    /\ RateInit
    /\ AuxInit

SpecTwoCreates == InitTwoCreates /\ [][CreateStep]_vars

\* the requests that pass through one of the three limiters, handled
\* concurrently, with the counter store reachable
RateStep ==
    \/ \E p \in Procs, a \in Actors : limiterStart(p, a)
    \/ \E p \in Procs : limiterIncr(p)
    \/ \E p \in Procs : limiterExpire(p)
    \/ \E p \in Procs : limiterTtl(p)
    \/ \E d \in Durations : Elapse(d)

InitRate ==
    /\ BookInit
    /\ cls \in Classes
    /\ RateInit
    /\ AuxInit

SpecRate == InitRate /\ [][RateStep]_vars

\* the same with calls of the counter store that may throw
RateStepOutage == RateStep \/ \E p \in Procs : limiterStoreError(p)

SpecRateOutage == InitRate /\ [][RateStepOutage]_vars

\* the limiter with store calls that may throw, one request at a time
RateQuiescent == \A p \in Procs : rlReq[p].pc \in {"idle", "done"}

RateStepSeqOutage ==
    \/ RateQuiescent /\ \E p \in Procs, a \in Actors : limiterStart(p, a)
    \/ \E p \in Procs : limiterIncr(p)
    \/ \E p \in Procs : limiterExpire(p)
    \/ \E p \in Procs : limiterTtl(p)
    \/ \E d \in Durations : Elapse(d)
    \/ \E p \in Procs : limiterStoreError(p)

SpecRateSeqOutage == InitRate /\ [][RateStepSeqOutage]_vars

\* the route POST /create: a request of the authenticated user passes
\* bookingRateLimiter and then createBooking; one request at a time
RouteStep ==
    \/ Quiescent /\ RateQuiescent /\ \E p \in Procs : limiterStart(p, "user:u1")
    \/ \E p \in Procs : limiterIncr(p)
    \/ \E p \in Procs : limiterExpire(p)
    \/ \E p \in Procs : limiterTtl(p)
    \/ \E p \in Procs : limiterStoreError(p)
    \/ \E d \in Durations : Elapse(d)
    \/ \E p \in Procs, q \in 0..MaxQty : nextCreateBooking(p, q)
    \/ CreateStep

SpecRoute == Init /\ [][RouteStep]_vars

\* the requests of all three limiters, counted by full key
KeyStep ==
    \/ \E c \in Classes, user \in KeyUsers, ip \in Addresses : keyedIncr(c, user, ip)
    \/ keyedExpire

SpecKeys == Init /\ [][KeyStep]_vars

\* the steps of getMe with a cache that answers
GetMeStep ==
    \/ \E p \in Procs, exp \in TokenExpiries : getMeStart(p, exp)
    \/ \E p \in Procs : getMeCacheGet(p)
    \/ \E p \in Procs : getMeFindUser(p)
    \/ \E p \in Procs : getMeCacheSet(p)
    \/ \E p \in Procs : getMeBookings(p)

DeleteUserStep ==
    \/ \E p \in Procs : deleteUserStart(p)
    \/ \E p \in Procs : deleteUserDelete(p)
    \/ \E p \in Procs : deleteUserInvalidate(p)

\* getMe and deleteUser requests handled concurrently
CacheStep == GetMeStep \/ DeleteUserStep \/ cacheTick

SpecCache == Init /\ [][CacheStep]_vars

\* getMe requests with a cache that may throw or lose its entry, and a
\* user record that is not written
AdvisoryStep ==
    \/ GetMeStep
    \/ \E p \in Procs : getMeCacheGetError(p)
    \/ \E p \in Procs : getMeCacheSetError(p)
    \/ cacheLost
    \/ cacheTick

SpecAdvisory == Init /\ [][AdvisoryStep]_vars

\* ---------------------------------------------------------- properties
Created(p) == req[p].op = "createBooking" /\ req[p].pc = "done"

\* the step in which request p's updateEventSeats saves the event
SavesSeats(p) == req[p].pc = "ues_save" /\ req'[p].pc # "ues_save"

\* C1: in every reachable state the event's availableSeats lies between 0
\* and maxOccupancy
SeatsWithinCapacity ==
    /\ 0 <= event.availableSeats
    /\ event.availableSeats <= event.maxOccupancy

\* C2: when no createBooking or cancelBooking request is in flight,
\* availableSeats equals maxOccupancy minus the quantities of the pending
\* and confirmed bookings
LedgerMatchesBookings ==
    Quiescent => event.availableSeats = event.maxOccupancy - SumActive(Len(bookings))

\* C3: the quantities of the pending and confirmed bookings never exceed
\* maxOccupancy
NoOverselling == SumActive(Len(bookings)) <= event.maxOccupancy

\* C4: of two concurrent createBooking requests for 2 seats on an event with
\* 3 seats left, exactly one succeeds, the other is rejected with a
\* remaining count of 3 or 1, one booking exists and 1 seat is left
TwoCreatesOneWins ==
    (Created(1) /\ Created(2)) =>
        /\ \E p \in {1, 2} :
              /\ req[p].res = 201
              /\ req[3 - p].res = 400
              /\ req[3 - p].remaining \in {1, 3}
        /\ Len(bookings) = 1
        /\ event.availableSeats = 1

\* C5: a createBooking request rejected for lack of seats, by the first
\* check (400) or by the check inside updateEventSeats (500), reports the
\* remaining count and has recorded no booking
RejectedReservationLeavesNothing ==
    \A p \in Procs :
        (Created(p) /\ req[p].quantity > 0 /\ req[p].res \in {400, 500}) =>
            /\ req[p].remaining # NoCount
            /\ req[p].id = 0

\* C6: a createBooking request that returned an error (its seat decrement
\* was not applied) has left no pending booking behind
FailedCreateLeavesNoPendingBooking ==
    \A p \in Procs :
        (Created(p) /\ req[p].res = 500) =>
            ~(Exists(req[p].id) /\ bookings[req[p].id].status = "pending")

\* C7: a cancelBooking request that found its booking already cancelled
\* releases no seats and is rejected
CancelOfCancelledReleasesNothing ==
    [][\A p \in Procs :
          (req[p].op = "cancelBooking" /\ req[p].booking.status = "cancelled") =>
              /\ SavesSeats(p) => event'.availableSeats = event.availableSeats
              /\ req'[p].pc = "done" => req'[p].res # 200]_vars

\* C8: a cancelBooking request that found its booking pending or confirmed
\* and runs to its end answers 200, leaves the booking cancelled and leaves
\* availableSeats at the count it found plus the booking's quantity
CancelReleasesQuantity ==
    [][\A p \in Procs :
          (/\ req[p].pc = "x_save"
           /\ req'[p].pc = "done"
           /\ req[p].booking.status \in {"pending", "confirmed"}) =>
              /\ req'[p].res = 200
              /\ bookings'[req[p].id].status = "cancelled"
              /\ event'.availableSeats = req[p].eventSeats + req[p].quantity]_vars

\* C8 witness: a confirmed booking of 2 seats was cancelled on an event that
\* had 1 seat left, and 3 seats are available
CancelledConfirmedBookingOfTwo ==
    \E p \in Procs :
        /\ req[p].op = "cancelBooking"
        /\ req[p].pc = "done"
        /\ req[p].res = 200
        /\ req[p].booking.status = "confirmed"
        /\ req[p].quantity = 2
        /\ bookings[req[p].id].status = "cancelled"
        /\ event.availableSeats = 3

\* C9: a booking whose status is cancelled stays cancelled
CancelledIsTerminal ==
    [][\A id \in 1..Len(bookings) :
          bookings[id].status = "cancelled" => bookings'[id].status = "cancelled"]_vars

\* C10: a release that would raise availableSeats above maxOccupancy is not
\* applied: availableSeats stays as it is
OverflowingReleaseRejected ==
    [][\A p \in Procs :
          (/\ SavesSeats(p)
           /\ req[p].operation = "increase"
           /\ req[p].seats > event.maxOccupancy) =>
              event'.availableSeats = event.availableSeats]_vars

\* the step in which request p, a cancelBooking request in flight, moves
CancelMoves(p) ==
    /\ req[p].op = "cancelBooking"
    /\ ~Free(p)
    /\ req'[p] # req[p]

\* C11: a cancelBooking request of an actor other than the booking's owner
\* is answered 403 and leaves the bookings and the event as they were; a
\* cancelBooking request goes past the ownership check only for the owner
OnlyOwnerCancels ==
    [][\A p \in Procs :
          (CancelMoves(p) /\ Exists(req[p].id)) =>
             /\ bookings[req[p].id].userId # req[p].user =>
                   /\ req'[p].pc = "done"
                   /\ req'[p].res = 403
                   /\ bookings' = bookings
                   /\ event' = event
             /\ (req[p].pc = "x_findBooking" /\ req'[p].pc = "x_findEvent") =>
                   bookings[req[p].id].userId = req[p].user]_vars

\* a cancelBooking request was answered 403 and its booking still holds seats
ForeignCancelRefused ==
    \E p \in Procs :
       /\ req[p].op = "cancelBooking"
       /\ req[p].pc = "done"
       /\ req[p].res = 403
       /\ Exists(req[p].id)
       /\ bookings[req[p].id].status \in {"pending", "confirmed"}
       /\ event.availableSeats < event.maxOccupancy

\* C12: once the event has started, a cancelBooking request never reaches
\* the refund call or updateEventSeats: it changes neither the bookings nor
\* the event, and past the ownership check it is answered 400
CancelAfterStartRejected ==
    [][\A p \in Procs :
          (CancelMoves(p) /\ req[p].pc \in {"x_findBooking", "x_findEvent"}
                          /\ event.date <= now) =>
             /\ bookings' = bookings
             /\ event' = event
             /\ \/ req[p].pc = "x_findBooking" /\ req'[p].pc = "x_findEvent"
                \/ req'[p].pc = "done" /\ req'[p].res \in {400, 403, 404}
             /\ req[p].pc = "x_findEvent" => (req'[p].pc = "done" /\ req'[p].res = 400)]_vars

\* the owner's cancelBooking request for a confirmed, paid booking was
\* answered 400 at the moment the event starts; nothing was refunded
LateCancelRefused ==
    \E p \in Procs :
       /\ req[p].op = "cancelBooking"
       /\ req[p].pc = "done"
       /\ req[p].res = 400
       /\ event.date = now
       /\ req[p].refund = "none"
       /\ bookings[req[p].id].status = "confirmed"
       /\ bookings[req[p].id].paymentStatus = "succeeded"
       /\ bookings[req[p].id].paymentIntentId

\* C13: a cancelBooking request whose refund call failed goes on: it
\* releases the booking's seats, sets the status to cancelled and is
\* answered 200 (with the refund of the response left null)
FailedRefundStillCancels ==
    [][\A p \in Procs :
          (CancelMoves(p) /\ (req[p].refund = "failed" \/ req'[p].refund = "failed")) =>
             /\ req[p].pc = "x_refund" => req'[p].pc = "ues_find"
             /\ req[p].pc = "ues_find" => req'[p].pc = "ues_save"
             /\ req[p].pc = "ues_save" =>
                   /\ req'[p].pc = "x_save"
                   /\ event'.availableSeats = req[p].eventSeats + req[p].quantity
             /\ req[p].pc = "x_save" =>
                   /\ req'[p].pc = "done"
                   /\ req'[p].res = 200
                   /\ bookings'[req[p].id].status = "cancelled"]_vars

\* a cancelBooking request with a failed refund was answered 200, the
\* booking is cancelled and its seats are back
CancelledWithFailedRefund ==
    \E p \in Procs :
       /\ req[p].op = "cancelBooking"
       /\ req[p].pc = "done"
       /\ req[p].res = 200
       /\ req[p].refund = "failed"
       /\ bookings[req[p].id].status = "cancelled"
       /\ event.availableSeats = event.maxOccupancy - SumActive(Len(bookings))

\* C14: the release of the seats and the write of the status cancelled
\* are one step: a cancelBooking request that has released the seats ends
\* with the booking cancelled, whatever fails in between
ReleaseAndCancelTogether ==
    [][\A p \in Procs :
          (CancelMoves(p) /\ req[p].pc = "x_save" /\ req'[p].pc = "done") =>
             bookings'[req[p].id].status = "cancelled"]_vars

\* C15: when the payment status of a pending booking becomes failed, the
\* booking's quantity is returned to availableSeats
FailedPaymentReleasesSeats ==
    [][\A id \in 1..Len(bookings) :
          (/\ bookings[id].status = "pending"
           /\ bookings[id].paymentStatus # "failed"
           /\ bookings'[id].paymentStatus = "failed") =>
             event'.availableSeats = event.availableSeats + bookings[id].quantity]_vars

\* C16: an updateBooking request with status confirmed and payment status
\* succeeded for a booking that is already confirmed is answered 200, keeps
\* the status confirmed, and changes neither the booking's other fields nor
\* the event; on a booking already paid it changes nothing at all
RepeatedConfirmationChangesNothing ==
    [][\A p \in Procs :
          (/\ req[p].pc = "u_save"
           /\ req'[p] # req[p]
           /\ req[p].body = [status |-> "confirmed", paymentStatus |-> "succeeded"]
           /\ req[p].booking.status = "confirmed") =>
             /\ req'[p].pc = "done"
             /\ req'[p].res = 200
             /\ event' = event
             /\ bookings' = [bookings EXCEPT ![req[p].id].paymentStatus = "succeeded"]
             /\ bookings'[req[p].id].status = "confirmed"
             /\ req[p].booking.paymentStatus = "succeeded" => bookings' = bookings]_vars

\* an updateBooking request that found its booking confirmed and paid was
\* answered 200, and the booking is confirmed and paid
ConfirmedTwice ==
    \E p \in Procs :
       /\ req[p].op = "updateBooking"
       /\ req[p].pc = "done"
       /\ req[p].res = 200
       /\ req[p].booking.status = "confirmed"
       /\ req[p].booking.paymentStatus = "succeeded"
       /\ bookings[req[p].id].status = "confirmed"
       /\ bookings[req[p].id].paymentStatus = "succeeded"

LimiterMoves(p) == rlReq'[p] # rlReq[p] /\ rlReq[p].pc \notin {"idle", "done"}

\* C18: in the booking limiter a request that counts 1 to 5 is let through,
\* a request that counts 6 or more is answered 429 with a retry-after of at
\* most 60 seconds, and a request that finds no counter (none yet, or the
\* window has elapsed) counts 1 again
FiveBookingsPerMinute ==
    [][cls = "booking" =>
          \A p \in Procs :
             LimiterMoves(p) =>
                /\ (rlReq[p].pc = "incr" /\ counters[rlReq[p].actor].count = 0) =>
                      (rlReq'[p].pc = "expire" /\ rlReq'[p].count = 1)
                /\ rlReq'[p].pc = "done" =>
                      /\ rlReq'[p].count \in 1..5 => rlReq'[p].res = "next"
                      /\ rlReq'[p].count >= 6 =>
                            (rlReq'[p].res = "429" /\ rlReq'[p].ttl <= 60)]_vars

\* the sixth booking request of a window is answered 429 after five were
\* let through, with the seconds left of the window as retry-after
SixthBookingDenied ==
    /\ cls = "booking"
    /\ \E p \in Procs :
          /\ rlReq[p].pc = "done"
          /\ rlReq[p].res = "429"
          /\ rlReq[p].count = 6
          /\ rlReq[p].ttl \in 1..60
          /\ passed[rlReq[p].actor] = 5

\* C19: for every class and key, at most the ceiling of requests is let
\* through while the key lives (3 in 300 s for authentication, 5 in 60 s for
\* bookings, 10 in 3600 s for event creation), and every request that
\* counts more than the ceiling is answered 429
AtMostCeilingPerWindow ==
    LET ceiling == CASE cls = "auth" -> 3
                     [] cls = "booking" -> 5
                     [] cls = "event_creation" -> 10
        window == CASE cls = "auth" -> 300
                    [] cls = "booking" -> 60
                    [] cls = "event_creation" -> 3600
    IN /\ \A a \in Actors :
             /\ passed[a] <= ceiling
             /\ counters[a].ttl <= window
       /\ \A p \in Procs :
             (rlReq[p].pc = "done" /\ rlReq[p].count > ceiling) => rlReq[p].res = "429"

\* ten event creations of one key were let through and the eleventh was
\* answered 429
EleventhEventDenied ==
    /\ cls = "event_creation"
    /\ \E p \in Procs :
          /\ rlReq[p].pc = "done"
          /\ rlReq[p].res = "429"
          /\ rlReq[p].count = 11
          /\ passed[rlReq[p].actor] = 10

\* C20: when no request is inside a limiter, every counter that exists has
\* a time to live of at most the window
EveryCounterExpires ==
    (\A p \in Procs : rlReq[p].pc \in {"idle", "done"}) =>
       \A a \in Actors :
          counters[a].count > 0 => counters[a].ttl \in 1..Window(cls)

\* C21: a step in which a call of the counter store throws (incr, expire or
\* ttl) ends the limiter with next(); a 429 is only sent by the step that
\* read the time to live of a count above the ceiling
FailOpen ==
    [][\A p \in Procs :
          /\ limiterStoreError(p) =>
                (rlReq'[p].pc = "done" /\ rlReq'[p].res = "next")
          /\ (LimiterMoves(p) /\ rlReq'[p].res = "429") =>
                /\ rlReq[p].pc = "ttl"
                /\ rlReq[p].count > Ceiling(cls)
                /\ rlReq'[p].ttl = counters[rlReq[p].actor].ttl]_vars

\* a request counted above the ceiling was passed on because the call for
\* the time to live threw
PassedOnStoreError ==
    \E p \in Procs :
       /\ rlReq[p].pc = "done"
       /\ rlReq[p].res = "next"
       /\ rlReq[p].count > Ceiling(cls)

\* C22: createBooking starts in a slot only when the limiter has called
\* next() for the request in it; the step that answers 429 creates no
\* booking and changes no event, and the handler does not run for a
\* request that was answered 429
DeniedNeverReachesCreateBooking ==
    [][\A p \in Procs :
          /\ (Free(p) /\ req'[p] # req[p]) =>
                (rlReq[p].pc = "done" /\ rlReq[p].res = "next")
          /\ (LimiterMoves(p) /\ rlReq'[p].res = "429") =>
                (bookings' = bookings /\ event' = event /\ req' = req)
          /\ (rlReq[p].pc = "done" /\ rlReq[p].res = "429") =>
                req'[p] = req[p]]_vars

\* a request was answered 429 by the limiter while both bookings of the
\* earlier requests exist and a seat is left
DeniedWhileSeatsLeft ==
    \E p \in Procs :
       /\ rlReq[p].pc = "done"
       /\ rlReq[p].res = "429"
       /\ Len(bookings) = 2
       /\ event.availableSeats > 0

\* the request that acted in a step of the counting by full key
KeyedRequest == IF keyReq.pc = "idle" THEN keyReq' ELSE keyReq

\* C23: a request changes the counter of one key only: the key of its own
\* class and of its user when it has one (booking, event creation), of its
\* address otherwise; the counters of every other class and actor keep
\* their count and their time to live
CountersPerClassAndActor ==
    [][\A k \in AllKeys :
          keyStore'[k] # keyStore[k] =>
             /\ k[2] = KeyedRequest.cls
             /\ (KeyedRequest.cls \in {"booking", "event_creation"} /\ KeyedRequest.user # "none") =>
                   (Len(k) = 5 /\ k[4] = "user:" /\ k[5] = KeyedRequest.user)
             /\ (KeyedRequest.cls = "booking" /\ KeyedRequest.user = "none") =>
                   (Len(k) = 4 /\ k[4] = KeyedRequest.ip)
             /\ (KeyedRequest.cls = "event_creation" /\ KeyedRequest.user = "none") =>
                   (Len(k) = 4 /\ k[4] = KeyedRequest.ip)]_vars

\* user u1 was counted twice for bookings and once for event creation from
\* the same address, and the address itself was never counted
SameUserTwoClasses ==
    /\ keyStore[<<"rate_limit:", "booking", ":", "user:", "u1">>].count = 2
    /\ keyStore[<<"rate_limit:", "event_creation", ":", "user:", "u1">>].count = 1
    /\ keyStore[<<"rate_limit:", "event_creation", ":", "user:", "u1">>].ttl = 3600
    /\ \A ip \in Addresses : keyStore[<<"rate_limit:", "booking", ":", ip>>].count = 0

\* the step in which request p, a getMe request in flight, moves
GetMeMoves(p) ==
    /\ cReq[p].op = "getMe"
    /\ ~CacheFree(p)
    /\ cReq'[p] # cReq[p]

\* C24: a getMe request that finds an entry in the cache takes the parsed
\* entry as its user data and goes on to the bookings without calling
\* findUserById; findUserById is only reached when no entry was found; and
\* the response carries the user data the request holds
HitSkipsLoader ==
    [][\A p \in Procs :
          GetMeMoves(p) =>
             /\ (cReq[p].pc = "gm_get" /\ cache.present) =>
                   /\ cReq'[p].pc = "gm_bookings"
                   /\ cReq'[p].hit
                   /\ cReq'[p].userData = parse(cache.value)
             /\ cReq'[p].pc = "gm_find" => (cReq[p].pc = "gm_get" /\ ~cache.present)
             /\ cReq[p].pc = "gm_find" => ~cReq[p].hit
             /\ (cReq[p].pc = "gm_bookings" /\ cReq[p].hit) =>
                   /\ cReq'[p].res = 200
                   /\ cReq'[p].body = [json |-> cReq[p].userData]]_vars

\* a getMe request was answered 200 from the cache with the user as the
\* earlier request stored it
AnsweredFromCache ==
    \E p \in Procs :
       /\ cReq[p].op = "getMe"
       /\ cReq[p].pc = "done"
       /\ cReq[p].res = 200
       /\ cReq[p].hit
       /\ cache.present
       /\ cReq[p].body = cache.value

\* C25: a getMe request that missed stores the user it loaded with a time
\* to live of tokenExpiry - now when that is more than 60 seconds and of 60
\* seconds otherwise, also when the token has expired meanwhile, and goes
\* on to answer with the user it loaded
MissStoresWithFloor ==
    [][\A p \in Procs :
          /\ (GetMeMoves(p) /\ cReq[p].pc = "gm_bookings" /\ ~cReq[p].hit) =>
                /\ cReq'[p].res = 200
                /\ cReq'[p].body = [json |-> [idType |-> "string", name |-> UserDoc.name]]
          /\ (GetMeMoves(p) /\ cReq[p].pc = "gm_set") =>
             /\ cache'.present
             /\ cache'.value = [json |-> [idType |-> "string", name |-> cReq[p].userData.name]]
             /\ cache'.ttl >= 60
             /\ cReq[p].exp - clock >= 60 => cache'.ttl = cReq[p].exp - clock
             /\ cReq[p].exp - clock < 60 => cache'.ttl = 60
             /\ cReq'[p].pc = "gm_bookings"
             /\ cReq'[p].userData = cReq[p].userData
             /\ cReq[p].userData = UserDoc]_vars

\* a getMe request whose token expired while the user was loaded has just
\* stored the entry for 60 seconds
StoredAfterTokenExpired ==
    \E p \in Procs :
       /\ cReq[p].op = "getMe"
       /\ cReq[p].pc = "gm_bookings"
       /\ ~cReq[p].hit
       /\ cReq[p].exp <= clock
       /\ cache.present
       /\ cache.ttl = 60

\* a deleteUser request has deleted the user, invalidated the cache and
\* responded
DeleteUserResponded ==
    /\ userDoc = NoUser
    /\ \A q \in Procs : cReq[q].pc # "du_invalidate"

\* C26: once deleteUser has responded, a getMe request that arrives finds no
\* entry, and no getMe request is answered from an entry any more: the
\* snapshot taken before the deletion is not returned
NoSnapshotAfterDelete ==
    [][\A p \in Procs :
          (DeleteUserResponded /\ GetMeMoves(p) /\ cReq[p].pc = "gm_get") =>
             (~cache.present /\ cReq'[p].pc = "gm_find")]_vars

\* C27: with a user record that is not written, every getMe request whose
\* token is valid is answered 200 with the user of the database, whether
\* the entry is there, was lost, or the cache threw on get or set; a getMe
\* request is answered 401 only for an expired token and never 500
CacheIsAdvisory ==
    [][\A p \in Procs :
          (cReq'[p] # cReq[p] /\ cReq'[p].op = "getMe" /\ cReq'[p].pc = "done") =>
             /\ cReq'[p].res \in {200, 401}
             /\ cReq'[p].res = 401 => CacheFree(p)
             /\ cReq'[p].res = 200 =>
                   cReq'[p].body = [json |-> [idType |-> "string", name |-> userDoc.name]]]_vars

\* one getMe request was answered from the cache and another from the
\* database, with the same body, and the entry has been lost since
SameAnswerWithoutCache ==
    \E p, q \in Procs :
       /\ cReq[p].pc = "done" /\ cReq[p].res = 200 /\ cReq[p].hit
       /\ cReq[q].pc = "done" /\ cReq[q].res = 200 /\ ~cReq[q].hit
       /\ cReq[p].body = cReq[q].body
       /\ ~cache.present
       /\ clock = 0

\* C28: no step changes the quantity, the price, the userId or the eventId
\* of a booking that exists, and no booking disappears
BookingFieldsImmutable ==
    [][/\ Len(bookings') >= Len(bookings)
       /\ \A id \in 1..Len(bookings) :
             /\ bookings'[id].quantity = bookings[id].quantity
             /\ bookings'[id].price = bookings[id].price
             /\ bookings'[id].userId = bookings[id].userId
             /\ bookings'[id].eventId = bookings[id].eventId]_vars

\* a booking of two seats went through createPaymentIntent, updateBooking
\* and cancelBooking and still has its quantity, price, user and event
CancelledBookingKeepsFields ==
    \E id \in 1..Len(bookings) :
       /\ bookings[id].status = "cancelled"
       /\ bookings[id].paymentStatus = "refunded"
       /\ bookings[id].paymentIntentId
       /\ bookings[id].quantity = 2
       /\ bookings[id].price = Price
       /\ bookings[id].eventId = EventId
       /\ \E p \in Procs : req[p].op = "cancelBooking" /\ req[p].refund # "none"

\* C29: every stored booking has a quantity that is a positive integer not
\* larger than the maxOccupancy of its event
QuantityWithinCapacity ==
    \A id \in 1..Len(bookings) :
       /\ bookings[id].quantity \in Nat
       /\ bookings[id].quantity >= 1
       /\ bookings[id].quantity <= event.maxOccupancy

\* C30: the event starts with availableSeats equal to its maxOccupancy, and
\* no step changes maxOccupancy
MaxOccupancyFixed ==
    /\ event.availableSeats = event.maxOccupancy
    /\ [][event'.maxOccupancy = event.maxOccupancy]_vars

\* seats of an event created with room for two were booked and released:
\* availableSeats moved away from maxOccupancy and came back
SeatsMovedCapacityStayed ==
    /\ event.maxOccupancy = 2
    /\ event.availableSeats = 2
    /\ \E id \in 1..Len(bookings) :
          bookings[id].status = "cancelled" /\ bookings[id].quantity = 1

\* the step with which createBooking or cancelBooking answers request p on
\* its user, its body or its id (401, 400 at arrival) or on the ownership of
\* the booking (403)
RejectedAtBoundary(p) ==
    /\ req'[p].pc = "done"
    /\ req'[p].op \in {"createBooking", "cancelBooking"}
    /\ \/ issued' = issued + 1 /\ req'[p].res \in {400, 401}
       \/ req[p].pc # "done" /\ req'[p].res = 403

\* C31: a createBooking or cancelBooking request that fails validation or
\* authorization is answered before any write: it made no store call but
\* the read of the booking, and its last step leaves the event and every
\* booking as they were
RejectedBeforeAnyWrite ==
    [][\A p \in Procs :
          RejectedAtBoundary(p) =>
             /\ req[p].pc \in {"idle", "done", "x_findBooking"}
             /\ event' = event
             /\ bookings' = bookings]_vars

\* a user who does not own the pending booking of two seats asked to cancel
\* it and was answered 403, with the seats still taken
ForeignCancelLeftBooking ==
    \E p \in Procs :
       /\ req[p].op = "cancelBooking" /\ req[p].pc = "done" /\ req[p].res = 403
       /\ Len(bookings) = 1
       /\ bookings[1].status = "pending" /\ bookings[1].quantity = 2
       /\ event.availableSeats = event.maxOccupancy - 2

\* C32: a createBooking request that finds no event, and a cancelBooking
\* request that finds no booking or no event, is answered 404 and its last
\* step leaves the event and every booking as they were
MissingIsNotFound ==
    [][\A p \in Procs :
          (/\ req'[p].pc = "done"
           /\ \/ req[p].pc \in {"c_findEvent", "x_findEvent"} /\ ~eventExists
              \/ req[p].pc = "x_findBooking" /\ ~Exists(req[p].id))
          => /\ req'[p].res = 404
             /\ event' = event
             /\ bookings' = bookings]_vars

\* C38: every booking that is pending or confirmed refers to an event that
\* exists
ActiveBookingHasEvent ==
    \A id \in 1..Len(bookings) :
       bookings[id].status \in {"pending", "confirmed"} => eventExists

\* C33: once the concurrent cancellations of the booking of two seats have
\* answered, the seats were given back exactly once and at most one refund
\* was asked for
ConcurrentCancelsReleaseOnce ==
    (\A p \in Procs : req[p].pc = "done")
    => /\ event.availableSeats = MaxSeats
       /\ Cardinality({p \in Procs : req[p].refund # "none"}) <= 1

\* C34: the time that a 429 response reports is a positive number of
\* seconds, at most the window of the limiter's class
RetryAfterWithinWindow ==
    \A p \in Procs :
       rlReq[p].res = "429" => rlReq[p].ttl \in 1..Window(cls)

\* C35: the window is fixed.  A key gets or gains time to live only by the
\* redis.expire of the request that counted 1, which sets it to the window;
\* every redis.incr adds one to the count, also when the count is above
\* the ceiling, and leaves the time to live of an existing key alone; the
\* step that answers 429 leaves the counter alone
FixedWindow ==
    [][/\ \A a \in Actors :
             (counters'[a].ttl >= 1 /\ counters'[a].ttl > counters[a].ttl) =>
                /\ counters'[a].ttl = Window(cls)
                /\ \E p \in Procs : /\ rlReq[p].pc = "expire" /\ rlReq[p].actor = a
                                    /\ rlReq[p].count = 1 /\ LimiterMoves(p)
       /\ \A p \in Procs :
             LimiterMoves(p) =>
                LET a == rlReq[p].actor IN
                /\ rlReq[p].pc = "incr" =>
                      /\ counters'[a].count = counters[a].count + 1
                      /\ counters[a].count > 0 => counters'[a].ttl = counters[a].ttl
                /\ rlReq'[p].res = "429" => counters' = counters]_vars

\* two requests were denied one after the other in a window that had begun
\* to run down: both were counted and the time to live was not set back
DeniedCountedWindowKept ==
    \E a \in Actors :
       /\ counters[a].count = Ceiling(cls) + 2
       /\ counters[a].ttl \in 1..(Window(cls) - 1)
       /\ \E p \in Procs : rlReq[p].res = "429" /\ rlReq[p].actor = a
                            /\ rlReq[p].count = Ceiling(cls) + 2

\* C36: the save of cancelBooking turns a booking's payment status into
\* refunded only when the request's refund call was made and succeeded
RefundedOnlyAfterRefund ==
    [][\A p \in Procs :
          (/\ req[p].pc = "x_save" /\ req'[p].pc = "done"
           /\ bookings[req[p].id].paymentStatus # "refunded"
           /\ bookings'[req[p].id].paymentStatus = "refunded")
          => req[p].refund = "ok"]_vars

\* C37: createPaymentIntent leaves the payment information of a booking
\* that is cancelled and refunded as it is
RefundedStaysRefunded ==
    [][\A id \in 1..MaxBookings :
          (/\ createPaymentIntent(id)
           /\ Exists(id)
           /\ bookings[id].status = "cancelled"
           /\ bookings[id].paymentStatus = "refunded")
          => /\ bookings'[id].paymentStatus = "refunded"
             /\ bookings'[id].paymentIntentId = bookings[id].paymentIntentId]_vars

====
